---------------------------- MODULE Spec2Model ----------------------------
(***************************************************************************)
(* Retrieval layer of the finance accountant agent:                        *)
(*   - split_text            (src/modules/file_manager.py)                 *)
(*   - RAGModule             (src/modules/rag_module.py)                   *)
(*                                                                         *)
(* RAGModule is a module-level singleton used from asyncio coroutines.     *)
(* A coroutine runs without interruption between two awaits; every         *)
(* `await loop.run_in_executor(...)` suspends it, so other coroutines run  *)
(* in between.  The model has one action per stretch of code between two   *)
(* awaits.  A worker-thread job that writes a file is part of the action   *)
(* that resumes its coroutine, since the coroutine does nothing else in    *)
(* between; the job that reads the index file is an action of its own,     *)
(* since the coroutine assigns what the job read only when it resumes.     *)
(***************************************************************************)
EXTENDS Integers, Sequences, FiniteSets, TLC

VARIABLES
    \* ---- split_text (one call) ----
    text,             \* the text argument, a sequence of characters
    chunk_size,       \* argument
    chunk_overlap,    \* argument
    start,            \* local `start`
    chunks,           \* local `chunks`, the strings collected so far
    spans,            \* ghost: for each chunk the offsets <<lo, hi>> of T it is
    seen,             \* ghost: the window starts the loop has used
    splitPc,          \* "off" | "loop" | "done"
    \* ---- RAGModule instance (process memory) ----
    embedding_model,  \* "None" | "loaded"
    index,            \* None or Some(rows): the FAISS IndexFlatL2
    documents,        \* self.documents
    initialized,      \* self.initialized
    \* ---- files under RAG_VECTOR_STORE_PATH ----
    indexFile,        \* faiss_index.bin: None or Some([ntotal, codes])
    docsFile,         \* documents.pkl:   None or Some(document list)
    \* ---- coroutines ----
    pc,               \* position of each coroutine
    args,             \* arguments of the call each coroutine runs
    tmp,              \* result of a finished worker-thread job
    event,            \* ghost: the call that the latest step ended, if any
    \* ---- bookkeeping ----
    adds,             \* number of add_documents calls started so far (also the
                      \* id of the latest one)
    atBoot,           \* ghost: no call has started in this process yet
    crashedInSave     \* ghost: at boot, the stop before it hit a call inside
                      \* the save step

splitVars == <<text, chunk_size, chunk_overlap, start, chunks, spans, seen,
               splitPc>>
memVars   == <<embedding_model, index, documents, initialized>>
diskVars  == <<indexFile, docsFile>>
taskVars  == <<pc, args, tmp, event>>
bookVars  == <<adds, atBoot, crashedInSave>>
ragVars   == <<embedding_model, index, documents, initialized, indexFile,
               docsFile, pc, args, tmp, event, adds, atBoot,
               crashedInSave>>
vars      == <<text, chunk_size, chunk_overlap, start, chunks, spans, seen,
               splitPc,
               embedding_model, index, documents, initialized, indexFile,
               docsFile, pc, args, tmp, event, adds, atBoot,
               crashedInSave>>

-----------------------------------------------------------------------------
(* Bounds *)

MaxLen       == 6     \* longest text given to split_text
MaxChunkSize == 5     \* largest chunk_size given to split_text
MaxChunks    == 8     \* chunks after which a run of split_text is cut; no call
                      \* with 0 < chunk_overlap < chunk_size gets that far
MaxAdds      == 2     \* add_documents calls started over the whole run
\* Searches, process stops and failures of a collaborator or of a file
\* operation are not counted: they add no data, so the state space is finite
\* without a bound on them.


-----------------------------------------------------------------------------
(* Python helpers *)

None    == <<>>
Some(x) == <<x>>

Min(a, b) == IF a < b THEN a ELSE b
Max(a, b) == IF a > b THEN a ELSE b

\* A slice bound as Python normalises it: negative bounds count from the end,
\* and the result is clamped to 0 .. n.
SliceBound(i, n) ==
    IF i < 0 THEN Max(i + n, 0) ELSE Min(i, n)

\* s[i:j]
PySlice(s, i, j) ==
    LET lo == SliceBound(i, Len(s))
        hi == SliceBound(j, Len(s))
    IN  IF lo >= hi THEN <<>> ELSE SubSeq(s, lo + 1, hi)

\* the offsets of s that s[i:j] takes, <<lo, hi>> with lo = hi when empty
PySpan(s, i, j) ==
    LET lo == SliceBound(i, Len(s))
        hi == SliceBound(j, Len(s))
    IN  IF lo >= hi THEN <<lo, lo>> ELSE <<lo, hi>>

\* s.rfind(sub): the highest 0-based offset where sub occurs in s, or -1
RFind(s, sub) ==
    LET hits == { k \in 0 .. (Len(s) - Len(sub)) :
                      SubSeq(s, k + 1, k + Len(sub)) = sub }
    IN  IF hits = {} THEN -1
        ELSE CHOOSE k \in hits : \A m \in hits : m <= k

-----------------------------------------------------------------------------
(* split_text, src/modules/file_manager.py:151-167 *)

\* break_chars, in the order the code tries them
break_chars == << <<"\n", "\n">>, <<"\n">>, <<".">>, <<"!">>, <<"?">>,
                  <<",">>, <<" ">> >>

\* the first break_char that occurs in chunk, as an index of break_chars; 0 if
\* none occurs
FirstBreak(chunk) ==
    LET found == { i \in 1 .. Len(break_chars) :
                       RFind(chunk, break_chars[i]) # -1 }
    IN  IF found = {} THEN 0
        ELSE CHOOSE i \in found : \A j \in found : i <= j

\* `end` after lines 155-164 for a window that starts at s
WindowEnd(T, s, C) ==
    LET end   == s + C
        chunk == PySlice(T, s, end)
        b     == FirstBreak(chunk)
    IN  IF end < Len(T) /\ b # 0
        THEN s + RFind(chunk, break_chars[b]) + 1
        ELSE end

\* characters the texts are made of
Alphabet == {"a", " ", ".", "\n"}

RECURSIVE SeqsUpTo(_, _)
SeqsUpTo(S, n) ==
    IF n = 0 THEN {<<>>}
    ELSE LET shorter == SeqsUpTo(S, n - 1)
         IN  shorter \cup { Append(s, c) : s \in { x \in shorter : Len(x) = n - 1 },
                                           c \in S }

Texts == SeqsUpTo(Alphabet, MaxLen)

\* characters for texts with two kinds of sentence-ending punctuation
MarkAlphabet == {"a", ".", "!", " "}

TextsWithMarks == SeqsUpTo(MarkAlphabet, MaxLen)

SplitStep_NoOverlap ==
    /\ splitPc = "loop"
    /\ start < Len(text)
    /\ start \notin seen
    /\ Len(chunks) < MaxChunks
    /\ LET end == WindowEnd(text, start, chunk_size)
       IN  /\ chunks' = Append(chunks, PySlice(text, start, end))
           /\ spans'  = Append(spans, PySpan(text, start, end))
           /\ start'  = end
    /\ seen' = seen \cup {start}
    /\ UNCHANGED <<text, chunk_size, chunk_overlap, splitPc>>
    /\ UNCHANGED ragVars

\* One iteration of the while loop.  The loop is deterministic and `start` is
\* its whole state: a call that comes back to a window start it has used
\* repeats itself for ever, and is followed no further.
SplitStep ==
    /\ splitPc = "loop"
    /\ start < Len(text)
    /\ start \notin seen
    /\ Len(chunks) < MaxChunks
    /\ LET end == WindowEnd(text, start, chunk_size)
       IN  /\ chunks' = Append(chunks, PySlice(text, start, end))
           /\ spans'  = Append(spans, PySpan(text, start, end))
           /\ start'  = end - chunk_overlap
    /\ seen' = seen \cup {start}
    /\ UNCHANGED <<text, chunk_size, chunk_overlap, splitPc>>
    /\ UNCHANGED ragVars

\* the loop condition fails: return chunks
SplitReturn ==
    /\ splitPc = "loop"
    /\ ~ (start < Len(text))
    /\ splitPc' = "done"
    /\ UNCHANGED <<text, chunk_size, chunk_overlap, start, chunks, spans, seen>>
    /\ UNCHANGED ragVars

-----------------------------------------------------------------------------
(* Data of the retrieval layer *)

Tasks == {1, 2}      \* coroutines (requests) that run at the same time

RAG_TOP_K == 5       \* settings.RAG_TOP_K

\* Metadata is a set of <<key, value>> pairs with one value per key.
HasKey(metadata, key) == \E p \in metadata : p[1] = key
Get(metadata, key)    == (CHOOSE p \in metadata : p[1] = key)[2]

\* Document(text, metadata); `call` is a ghost field, the id of the
\* add_documents call that brought the document.
Doc(t, m, c) == [text |-> t, metadata |-> m, call |-> c]

\* The batches given to add_documents (before the call id is attached): the
\* empty one, and one whose chunks differ in text and in metadata.
Batches ==
    { <<>>,
      << [text |-> "assets", metadata |-> {<<"category", "accounting">>}],
         [text |-> "ledger", metadata |-> {}],
         [text |-> "vat",    metadata |-> {<<"category", "tax">>}] >> }

Tagged(batch, c) == [i \in 1 .. Len(batch) |-> Doc(batch[i].text, batch[i].metadata, c)]

Queries == {"vat", "ledger"}

\* top_k arguments; 0 stands for None (the argument is omitted)
TopKs == {0, 2}

\* filter_criteria: None, or a dict given as a set of entries
\* [key, isList, vals]; a scalar filter value v has isList FALSE, vals {v}.
NoFilter == [given |-> FALSE, dict |-> {}]
Filter(d) == [given |-> TRUE, dict |-> d]
Filters ==
    { NoFilter,
      Filter({}),
      Filter({[key |-> "category", isList |-> FALSE, vals |-> {"tax"}]}),
      Filter({[key |-> "category", isList |-> TRUE,  vals |-> {"tax", "audit"}]}),
      Filter({[key |-> "category", isList |-> FALSE, vals |-> {"audit"}]}) }

\* The embedding collaborator: a fixed map from text to a vector, here a
\* point on a line.
Embed(t) ==
    CASE t = "ledger" -> 0
      [] t = "assets" -> 1
      [] t = "vat"    -> 4
      [] OTHER        -> 9

\* squared Euclidean distance, as IndexFlatL2 computes it
L2(a, b) == (a - b) * (a - b)

\* A row of the index: the vector, and as a ghost the call that added it.
Row(v, c) == [v |-> v, call |-> c]

EncodeBatch(batch) == [i \in 1 .. Len(batch) |-> Row(Embed(batch[i].text), batch[i].call)]

-----------------------------------------------------------------------------
(* faiss.IndexFlatL2 *)

\* row i comes before row j for query vector q: nearer first, lower row first
\* among equals
Nearer(xb, q, i, j) ==
    \/ L2(q, xb[i + 1].v) < L2(q, xb[j + 1].v)
    \/ L2(q, xb[i + 1].v) = L2(q, xb[j + 1].v) /\ i <= j

\* the rows of xb (0-based labels), nearest to q first
Ranked(xb, q) ==
    SortSeq([i \in 1 .. Len(xb) |-> i - 1],
            LAMBDA i, j : i # j /\ Nearer(xb, q, i, j))

\* index.search(q, k): the labels of the k nearest rows, 0-based, nearest
\* first; when the index holds fewer than k rows the rest are -1
FaissSearch(xb, q, k) ==
    LET n == Min(k, Len(xb))
    IN  SubSeq(Ranked(xb, q), 1, n) \o [i \in 1 .. (k - n) |-> -1]

\* faiss.write_index / faiss.read_index: the file holds the row count and
\* the stored rows; reading takes `ntotal` rows of the stored ones
WriteIndex(xb) == [ntotal |-> Len(xb), codes |-> xb]
ReadIndex(f)   == SubSeq(f.codes, 1, f.ntotal)

-----------------------------------------------------------------------------
(* RAGModule._matches_filter, src/modules/rag_module.py:214-226 *)

_matches_filter_SkipMissingKey(metadata, filter_criteria) ==
    \A e \in filter_criteria :
        HasKey(metadata, e.key) =>
            IF e.isList
            THEN Get(metadata, e.key) \in e.vals
            ELSE Get(metadata, e.key) = (CHOOSE v \in e.vals : TRUE)

_matches_filter(metadata, filter_criteria) ==
    \A e \in filter_criteria :
        /\ HasKey(metadata, e.key)
        /\ IF e.isList
           THEN Get(metadata, e.key) \in e.vals
           ELSE Get(metadata, e.key) = (CHOOSE v \in e.vals : TRUE)

-----------------------------------------------------------------------------
(* The result loop of RAGModule.search, src/modules/rag_module.py:193-208 *)

\* `if filter_criteria:` is false for None and for an empty dict
Truthy(f) == f.given /\ f.dict # {}

\* documents[idx] in Python: a negative idx counts from the end
PyIndexOk(docs, idx) == -Len(docs) <= idx /\ idx < Len(docs)
PyIndex(docs, idx)   == IF idx < 0 THEN docs[Len(docs) + idx + 1] ELSE docs[idx + 1]

\* The loop from label i on, with `results` collected so far.  The value is
\* [raised, results]; raised when documents[idx] is out of range.
RECURSIVE Walk(_, _, _, _, _, _)
Walk(labels, i, docs, results, f, top_k) ==
    IF i > Len(labels) THEN [raised |-> FALSE, results |-> results]
    ELSE LET idx == labels[i]
         IN  IF idx < Len(docs)
             THEN IF ~ PyIndexOk(docs, idx)
                  THEN [raised |-> TRUE, results |-> <<>>]
                  ELSE LET doc  == PyIndex(docs, idx)
                           keep == IF Truthy(f)
                                   THEN _matches_filter(doc.metadata, f.dict)
                                   ELSE TRUE
                           res  == IF keep THEN Append(results, doc) ELSE results
                       IN  IF Len(res) >= top_k
                           THEN [raised |-> FALSE, results |-> res]
                           ELSE Walk(labels, i + 1, docs, res, f, top_k)
             ELSE IF Len(results) >= top_k
                  THEN [raised |-> FALSE, results |-> results]
                  ELSE Walk(labels, i + 1, docs, results, f, top_k)

\* top_k after lines 178-179
EffectiveTopK(top_k) == IF top_k = 0 THEN RAG_TOP_K ELSE top_k

SearchBody_FetchMore(xb, docs, q, top_k, f) ==
    CHOOSE w \in { Walk(labels, 1, docs, <<>>, f, top_k) :
                       labels \in {FaissSearch(xb, q, 3 * top_k)} } : TRUE

\* lines 190-208 for a query vector q; `labels` is indices[0], computed once
SearchBody(xb, docs, q, top_k, f) ==
    CHOOSE w \in { Walk(labels, 1, docs, <<>>, f, top_k) :
                       labels \in {FaissSearch(xb, q, 2 * top_k)} } : TRUE

-----------------------------------------------------------------------------
(* RAGModule.generate_context and augment_prompt,
   src/modules/rag_module.py:228-287.  A string is a sequence of pieces; the
   empty string is the empty sequence.  Both run on the result of their
   inner `await self.search(query, filter_criteria=...)` (top_k omitted)
   with no await of their own, so they end in the step that ends the search. *)

\* lines 246-250
SourceInfo(metadata) ==
    (IF HasKey(metadata, "source")
     THEN <<" (Source: ", Get(metadata, "source"), ")">> ELSE <<>>)
    \o (IF HasKey(metadata, "date")
        THEN <<", ", Get(metadata, "date")>> ELSE <<>>)

ContextPart_ZeroBased(i, doc) ==
    <<"[Document ", ToString(i), "]">> \o SourceInfo(doc.metadata)
        \o <<"\n", doc.text, "\n">>

\* line 252: f"[Document {i+1}]{source_info}\n{doc.text}\n", i 0-based
ContextPart(i, doc) ==
    <<"[Document ", ToString(i + 1), "]">> \o SourceInfo(doc.metadata)
        \o <<"\n", doc.text, "\n">>

\* "\n".join(parts)
RECURSIVE JoinLines(_)
JoinLines(parts) ==
    IF parts = <<>> THEN <<>>
    ELSE IF Len(parts) = 1 THEN parts[1]
    ELSE parts[1] \o <<"\n">> \o JoinLines(Tail(parts))

\* generate_context after search has returned relevant_docs, lines 240-256
generate_context(relevant_docs) ==
    IF relevant_docs = <<>> THEN <<>>
    ELSE JoinLines([i \in 1 .. Len(relevant_docs) |->
                       ContextPart(i - 1, relevant_docs[i])])

\* lines 277-286
AugmentedPrompt(system_prompt, context) ==
    <<"\n">> \o system_prompt
        \o <<"\n\nUse the following financial documents as context for your response:\n\n">>
        \o context
        \o <<"\n\nFocus on providing accurate information based on these documents when relevant to the query.\n">>

augment_prompt_NoEmptyCheck(enabled, system_prompt, relevant_docs) ==
    IF ~ enabled THEN system_prompt
    ELSE AugmentedPrompt(system_prompt, generate_context(relevant_docs))

\* augment_prompt, lines 270-287; relevant_docs is what the inner search
\* returned (not read when retrieval is disabled)
augment_prompt(enabled, system_prompt, relevant_docs) ==
    IF ~ enabled THEN system_prompt
    ELSE LET context == generate_context(relevant_docs)
         IN  IF context = <<>> THEN system_prompt
             ELSE AugmentedPrompt(system_prompt, context)

\* the system prompts given to augment_prompt
Prompts == { <<>>, <<"You are a financial assistant.">> }

-----------------------------------------------------------------------------
(* Coroutines *)

InitPcs == {"init_model", "init_read_wait", "init_read_done"}
SavePcs == {"save_index", "save_docs"}

\* The job that a coroutine waiting at p has handed to a worker thread with
\* run_in_executor (lines 67, 78, 117, 147, 153, 184).  All other code of
\* the coroutine runs in its own steps, on the event loop.
AwaitedJob(p) ==
    CASE p = "init_model"     -> "SentenceTransformer"
      [] p = "init_read_wait" -> "faiss.read_index"
      [] p = "add_encode"     -> "embedding_model.encode"
      [] p = "save_index"     -> "faiss.write_index"
      [] p = "save_docs"      -> "pickle.dump"
      [] p = "search_encode"  -> "embedding_model.encode"
      [] OTHER                -> "none"

\* `warm` is a ghost field: the call is an add_documents call made when the
\* module was already initialized (line 61 returned at once).
NoArgs == [kind |-> "none", id |-> 0, batch |-> <<>>, query |-> "",
           top_k |-> 0, filter |-> NoFilter, warm |-> FALSE]
NoTmp  == [ok |-> TRUE, xb |-> <<>>]

Returned(n, res) == [outcome |-> "returned", count |-> n, results |-> res, err |-> "none"]
Raised(e)        == [outcome |-> "raised", count |-> 0, results |-> <<>>, err |-> e]

\* initialize, lines 93-95: log and re-raise
InitExcept(e) == Raised(e)

\* add_documents, lines 135-137: log and re-raise
AddExcept(e) == Raised(e)

SearchExcept_Reraise(e) == Raised(e)

\* search, lines 210-212: log and return []
SearchExcept(e) == [outcome |-> "returned", count |-> 0, results |-> <<>>, err |-> e]

\* The end of a call as the caller sees it: the arguments a and the result r.
NoEvent == [task |-> 0, kind |-> "none", id |-> 0, batch |-> <<>>, query |-> "",
            top_k |-> 0, filter |-> NoFilter,
            outcome |-> "none", count |-> 0, results |-> <<>>, err |-> "none"]
CallEnd(t, a, r) ==
    [task |-> t, kind |-> a.kind, id |-> a.id, batch |-> a.batch,
     query |-> a.query, top_k |-> a.top_k, filter |-> a.filter,
     outcome |-> r.outcome, count |-> r.count, results |-> r.results,
     err |-> r.err]

\* A collaborator or file operation succeeds (TRUE) or raises (FALSE).
MayFail == BOOLEAN

\* the call of coroutine t, with arguments a, ends with result r
Finish(t, a, r) ==
    /\ pc'    = [pc EXCEPT ![t] = "idle"]
    /\ args'  = [args EXCEPT ![t] = NoArgs]
    /\ \E av \in {a}, rv \in {r} : event' = CallEnd(t, av, rv)

\* coroutine t, with arguments a, waits at p
Goto(t, a, p) ==
    /\ pc'    = [pc EXCEPT ![t] = p]
    /\ args'  = [args EXCEPT ![t] = a]
    /\ event' = NoEvent

\* The caller's code after `await self.initialize()` has returned, up to its
\* first await: add_documents lines 109-120, search lines 174-187.
\* a is the call's argument record, docs is self.documents at that moment.
AfterInit(t, a, docs) ==
    IF a.kind = "add"
    THEN \E b \in Batches :
            IF b = <<>>
            THEN Finish(t, a, Returned(0, <<>>))
            ELSE Goto(t, [a EXCEPT !.batch = Tagged(b, a.id)], "add_encode")
    ELSE IF docs = <<>>
         THEN Finish(t, a, Returned(0, <<>>))
         ELSE Goto(t, a, "search_encode")

\* A request calls add_documents or search: the code up to the first await.
\* initialize lines 61-70: return at once when initialized, else hand the
\* model load to a worker thread.  The request runs on the first free
\* coroutine.
StartCall(t, kind) ==
    /\ pc[t] = "idle"
    /\ \A u \in Tasks : u < t => pc[u] # "idle"
    /\ kind = "add" => adds < MaxAdds
    /\ adds' = IF kind = "add" THEN adds + 1 ELSE adds
    /\ atBoot' = FALSE
    /\ crashedInSave' = FALSE
    /\ LET a == [NoArgs EXCEPT !.kind = kind,
                            !.id = IF kind = "add" THEN adds + 1 ELSE 0,
                            !.warm = (kind = "add" /\ initialized)]
       IN  IF initialized
           THEN AfterInit(t, a, documents)
           ELSE Goto(t, a, "init_model")
    /\ UNCHANGED tmp
    /\ UNCHANGED memVars
    /\ UNCHANGED diskVars
    /\ UNCHANGED splitVars

\* initialize resumes after the model load, lines 67-91: assign the model,
\* then either hand read_index to a worker thread or create a new index.
InitModelResume(t) ==
    /\ pc[t] = "init_model"
    /\ \E ok \in MayFail :
          /\ IF ~ ok
             THEN /\ Finish(t, args[t], InitExcept("init"))
                  /\ UNCHANGED <<embedding_model, index, documents, initialized>>
             ELSE /\ embedding_model' = "loaded"
                  /\ IF indexFile # None /\ docsFile # None
                     THEN /\ Goto(t, args[t], "init_read_wait")
                          /\ UNCHANGED <<index, documents, initialized>>
                     ELSE /\ index' = Some(<<>>)
                          /\ initialized' = TRUE
                          /\ UNCHANGED documents
                          /\ AfterInit(t, args[t], documents)
    /\ UNCHANGED tmp
    /\ UNCHANGED diskVars
    /\ UNCHANGED bookVars
    /\ UNCHANGED splitVars

\* the worker thread runs faiss.read_index, line 80
ReadIndexExec(t) ==
    /\ pc[t] = "init_read_wait"
    /\ \E ok \in MayFail :
          /\ tmp' = [tmp EXCEPT ![t] =
                        IF ok
                        THEN [ok |-> TRUE, xb |-> ReadIndex(indexFile[1])]
                        ELSE [ok |-> FALSE, xb |-> <<>>]]
    /\ Goto(t, args[t], "init_read_done")
    /\ UNCHANGED memVars
    /\ UNCHANGED diskVars
    /\ UNCHANGED bookVars
    /\ UNCHANGED splitVars

\* initialize resumes after read_index, lines 78-91: assign the index, load
\* the document list, set the flag.
InitReadResume(t) ==
    /\ pc[t] = "init_read_done"
    /\ IF ~ tmp[t].ok
       THEN /\ Finish(t, args[t], InitExcept("init"))
            /\ UNCHANGED <<index, documents, initialized>>
       ELSE /\ index' = Some(tmp[t].xb)
            /\ \E ok \in MayFail :
                  /\ IF ok
                     THEN /\ documents' = docsFile[1]
                          /\ initialized' = TRUE
                          /\ AfterInit(t, args[t], docsFile[1])
                     ELSE /\ Finish(t, args[t], InitExcept("init"))
                          /\ UNCHANGED <<documents, initialized>>
    /\ tmp' = [tmp EXCEPT ![t] = NoTmp]
    /\ UNCHANGED embedding_model
    /\ UNCHANGED diskVars
    /\ UNCHANGED bookVars
    /\ UNCHANGED splitVars

AddEncodeResume_AppendFirst(t) ==
    /\ pc[t] = "add_encode"
    /\ \E ok \in MayFail :
          /\ documents' = documents \o args[t].batch
          /\ IF ~ ok
             THEN /\ Finish(t, args[t], AddExcept("embed"))
                  /\ UNCHANGED index
             ELSE /\ index' = Some(index[1] \o EncodeBatch(args[t].batch))
                  /\ Goto(t, args[t], "save_index")
    /\ UNCHANGED <<tmp, embedding_model, initialized>>
    /\ UNCHANGED diskVars
    /\ UNCHANGED bookVars
    /\ UNCHANGED splitVars

AddEncodeResume_Dedup(t) ==
    /\ pc[t] = "add_encode"
    /\ \E ok \in MayFail :
          /\ IF ~ ok
             THEN /\ Finish(t, args[t], AddExcept("embed"))
                  /\ UNCHANGED <<index, documents>>
             ELSE /\ IF \E i \in 1 .. Len(documents) :
                           documents[i].text = args[t].batch[1].text
                     THEN UNCHANGED <<index, documents>>
                     ELSE /\ index' = Some(index[1] \o EncodeBatch(args[t].batch))
                          /\ documents' = documents \o args[t].batch
                  /\ Goto(t, args[t], "save_index")
    /\ UNCHANGED <<tmp, embedding_model, initialized>>
    /\ UNCHANGED diskVars
    /\ UNCHANGED bookVars
    /\ UNCHANGED splitVars

\* add_documents resumes after encode, lines 117-130: on failure raise; else
\* index.add, documents.extend, and hand write_index to a worker thread.
AddEncodeResume(t) ==
    /\ pc[t] = "add_encode"
    /\ \E ok \in MayFail :
          /\ IF ~ ok
             THEN /\ Finish(t, args[t], AddExcept("embed"))
                  /\ UNCHANGED <<index, documents>>
             ELSE /\ index' = Some(index[1] \o EncodeBatch(args[t].batch))
                  /\ documents' = documents \o args[t].batch
                  /\ Goto(t, args[t], "save_index")
    /\ UNCHANGED <<tmp, embedding_model, initialized>>
    /\ UNCHANGED diskVars
    /\ UNCHANGED bookVars
    /\ UNCHANGED splitVars

\* _save_index_and_documents, lines 147-150: a worker thread runs
\* faiss.write_index(self.index, ...) and the coroutine resumes; on failure
\* the exception leaves add_documents at lines 135-137, else pickle.dump is
\* handed to a worker thread.
SaveIndexResume(t) ==
    /\ pc[t] = "save_index"
    /\ \E ok \in MayFail :
          /\ indexFile' = IF ok THEN Some(WriteIndex(index[1])) ELSE indexFile
          /\ IF ok
             THEN Goto(t, args[t], "save_docs")
             ELSE Finish(t, args[t], AddExcept("save"))
    /\ UNCHANGED <<tmp, docsFile>>
    /\ UNCHANGED memVars
    /\ UNCHANGED bookVars
    /\ UNCHANGED splitVars

SaveDocsResume_NoWrite(t) ==
    /\ pc[t] = "save_docs"
    /\ Finish(t, args[t], Returned(Len(args[t].batch), <<>>))
    /\ UNCHANGED <<tmp, indexFile, docsFile>>
    /\ UNCHANGED memVars
    /\ UNCHANGED bookVars
    /\ UNCHANGED splitVars

\* _save_index_and_documents, lines 153-156, and add_documents lines
\* 130-137: a worker thread runs pickle.dump(self.documents, ...) and the
\* coroutine resumes; add_documents returns the batch size or raises.
SaveDocsResume(t) ==
    /\ pc[t] = "save_docs"
    /\ \E ok \in MayFail :
          /\ docsFile' = IF ok THEN Some(documents) ELSE docsFile
          /\ IF ok
             THEN Finish(t, args[t], Returned(Len(args[t].batch), <<>>))
             ELSE Finish(t, args[t], AddExcept("save"))
    /\ UNCHANGED <<tmp, indexFile>>
    /\ UNCHANGED memVars
    /\ UNCHANGED bookVars
    /\ UNCHANGED splitVars

\* What can fail inside the try block of search: the query encode (line 186)
\* or index.search (line 190).
SearchFailures == {"embed", "search"}

\* search resumes after encode, lines 184-212.  The query, top_k and the
\* filter are arguments of the call; nothing reads them before this point.
SearchEncodeResume(t) ==
    /\ pc[t] = "search_encode"
    /\ \/ \E fail \in SearchFailures :
             Finish(t, args[t], SearchExcept(fail))
       \/ \E q \in Queries, k \in TopKs, f \in Filters :
             \E w \in {SearchBody(index[1], documents, Embed(q),
                                   EffectiveTopK(k), f)} :
                LET a == [args[t] EXCEPT !.query = q, !.top_k = k, !.filter = f]
                IN  IF w.raised
                    THEN Finish(t, a, SearchExcept("index"))
                    ELSE Finish(t, a, Returned(0, w.results))
    /\ UNCHANGED tmp
    /\ UNCHANGED memVars
    /\ UNCHANGED diskVars
    /\ UNCHANGED bookVars
    /\ UNCHANGED splitVars

\* The process stops (crash or kill) and a new one starts: memory is as
\* after RAGModule.__init__ (lines 53-57), the files stay.
Crash ==
    /\ ~ atBoot
    /\ atBoot' = TRUE
    /\ crashedInSave' = (\E t \in Tasks : pc[t] \in SavePcs)
    /\ embedding_model' = "None"
    /\ index' = None
    /\ documents' = <<>>
    /\ initialized' = FALSE
    /\ pc'   = [t \in Tasks |-> "idle"]
    /\ args' = [t \in Tasks |-> NoArgs]
    /\ tmp'  = [t \in Tasks |-> NoTmp]
    /\ event' = NoEvent
    /\ UNCHANGED adds
    /\ UNCHANGED diskVars
    /\ UNCHANGED splitVars

-----------------------------------------------------------------------------
(* Specifications *)

\* RAGModule.__init__ (lines 53-57) on an empty vector_store directory
RagInit ==
    /\ embedding_model = "None"
    /\ index = None
    /\ documents = <<>>
    /\ initialized = FALSE
    /\ indexFile = None
    /\ docsFile = None
    /\ pc   = [t \in Tasks |-> "idle"]
    /\ args = [t \in Tasks |-> NoArgs]
    /\ tmp  = [t \in Tasks |-> NoTmp]
    /\ event = NoEvent
    /\ adds = 0
    /\ atBoot = TRUE
    /\ crashedInSave = FALSE

SplitOff ==
    /\ text = <<>>
    /\ chunk_size = 2
    /\ chunk_overlap = 1
    /\ start = 0
    /\ chunks = <<>>
    /\ spans = <<>>
    /\ seen = {}
    /\ splitPc = "off"

Init == RagInit /\ SplitOff

Next ==
    \/ \E t \in Tasks : StartCall(t, "add")
    \/ \E t \in Tasks : StartCall(t, "search")
    \/ \E t \in Tasks : InitModelResume(t)
    \/ \E t \in Tasks : ReadIndexExec(t)
    \/ \E t \in Tasks : InitReadResume(t)
    \/ \E t \in Tasks : AddEncodeResume(t)
    \/ \E t \in Tasks : SaveIndexResume(t)
    \/ \E t \in Tasks : SaveDocsResume(t)
    \/ \E t \in Tasks : SearchEncodeResume(t)
    \/ Crash

Spec == Init /\ [][Next]_vars

\* split_text called with a text and 0 < chunk_overlap < chunk_size;
\* lines 152-153 have run
InitSplit ==
    /\ RagInit
    /\ text \in Texts
    /\ chunk_size \in 2 .. MaxChunkSize
    /\ chunk_overlap \in 1 .. (chunk_size - 1)
    /\ start = 0
    /\ chunks = <<>>
    /\ spans = <<>>
    /\ seen = {}
    /\ splitPc = "loop"

NextSplit == SplitStep \/ SplitReturn

SpecSplit == InitSplit /\ [][NextSplit]_vars

\* split_text called with a chunk_overlap outside 0 < chunk_overlap <
\* chunk_size: the function has no check of its arguments, so lines 152-153
\* run and the loop starts as for any other call
InitSplitUnchecked ==
    /\ RagInit
    /\ text \in Texts
    /\ chunk_size \in 2 .. MaxChunkSize
    /\ chunk_overlap \in {-1, 0, chunk_size}
    /\ start = 0
    /\ chunks = <<>>
    /\ spans = <<>>
    /\ seen = {}
    /\ splitPc = "loop"

SpecSplitUnchecked == InitSplitUnchecked /\ [][NextSplit]_vars

\* split_text called with a text that can hold "." and "!" together
InitSplitMarks ==
    /\ RagInit
    /\ text \in TextsWithMarks
    /\ chunk_size \in 2 .. MaxChunkSize
    /\ chunk_overlap \in 1 .. (chunk_size - 1)
    /\ start = 0
    /\ chunks = <<>>
    /\ spans = <<>>
    /\ seen = {}
    /\ splitPc = "loop"

SpecSplitMarks == InitSplitMarks /\ [][NextSplit]_vars

-----------------------------------------------------------------------------
(* Claims about split_text *)

\* C3: for every text and 0 < chunk_overlap < chunk_size, split_text
\* terminates: the window start eventually reaches or exceeds |T|.  The loop
\* is deterministic and `start` is its whole state, so it terminates exactly
\* when it never comes back to a window start it has already used.
C3_SplitTerminates == splitPc = "loop" => start \notin seen

\* position p of T (0-based) lies in chunk i
InChunk(p, i) == spans[i][1] <= p /\ p < spans[i][2]

\* the spans of the chunks that hold at least one character
NonEmptySpan(sp) == sp[1] < sp[2]
RealSpans == SelectSeq(spans, NonEmptySpan)

\* C4: the chunks returned by split_text cover T with no character loss and
\* no gap: the first chunk starts at offset 0, every later chunk starts at or
\* before the offset where the previous chunk ended, the last chunk ends at
\* |T|, and so every character position of T lies in at least one chunk.
\* (An empty chunk holds no position; the chain is read over the others.)
C4_ChunksCoverText ==
    splitPc = "done" =>
        /\ RealSpans # <<>> => RealSpans[1][1] = 0
        /\ \A i \in 2 .. Len(RealSpans) : RealSpans[i][1] <= RealSpans[i - 1][2]
        /\ RealSpans # <<>> => RealSpans[Len(RealSpans)][2] = Len(text)
        /\ \A p \in 0 .. (Len(text) - 1) : \E i \in 1 .. Len(spans) : InChunk(p, i)

\* C13: each chunk after the first begins at previous_end - chunk_overlap,
\* previous_end being the offset of T just past the last character of the
\* previous chunk, also after a chunk whose window reached or passed |T|.
C13_NextStartsAtOverlap ==
    \A i \in 2 .. Len(spans) : spans[i][1] = spans[i - 1][2] - chunk_overlap

\* C14: a call with chunk_overlap <= 0 or chunk_overlap >= chunk_size is
\* rejected with an error: it produces no chunk and does not return a list.
C14_RejectsBadOverlap ==
    (chunk_overlap <= 0 \/ chunk_overlap >= chunk_size) =>
        (chunks = <<>> /\ splitPc # "done")

\* T contains none of the break markers
Unpunctuated(T) ==
    \A i \in 1 .. Len(T) : \A b \in 1 .. Len(break_chars) : T[i] # break_chars[b][1]

\* C22: for a text without break markers and 0 < O < C, chunk i (counted
\* from 0) starts at offset i*(C-O) and has length min(C, |T| - i*(C-O)),
\* and split_text returns one chunk for every i >= 0 with i*(C-O) < |T|.
C22_FixedStride ==
    Unpunctuated(text) =>
        LET stride == chunk_size - chunk_overlap
        IN  /\ \A k \in 1 .. Len(chunks) :
                  LET s == (k - 1) * stride
                      n == Min(chunk_size, Len(text) - s)
                  IN  /\ spans[k] = <<s, s + n>>
                      /\ chunks[k] = SubSeq(text, s + 1, s + n)
            /\ splitPc = "done" =>
                  Len(chunks) = Cardinality({i \in 0 .. Len(text) :
                                                i * stride < Len(text)})

\* 6 unpunctuated characters, chunk_size 3, overlap 1: chunks at 0, 2 and 4
C22_Witness ==
    /\ splitPc = "done"
    /\ Unpunctuated(text)
    /\ Len(text) = 6
    /\ chunk_size = 3
    /\ chunk_overlap = 1
    /\ spans = << <<0, 3>>, <<2, 5>>, <<4, 6>> >>

\* the marker classes in priority order: paragraph break, newline,
\* sentence-ending punctuation, comma, space
marker_classes ==
    << { <<"\n", "\n">> }, { <<"\n">> }, { <<".">>, <<"!">>, <<"?">> },
       { <<",">> }, { <<" ">> } >>

\* the offset in chunk of the occurrence of a marker of class c nearest to
\* the right edge, or -1
NearestOfClass(chunk, c) ==
    LET offs == { RFind(chunk, m) : m \in marker_classes[c] }
    IN  CHOOSE k \in offs : \A j \in offs : j <= k

\* where the chunk of the window that starts at s ends: at the raw boundary
\* s + C unless that lies strictly inside T and the window holds a marker,
\* and then just past the nearest occurrence of the highest class present
CutByClass(T, s, C) ==
    LET chunk   == PySlice(T, s, s + C)
        present == { c \in 1 .. Len(marker_classes) :
                        NearestOfClass(chunk, c) # -1 }
    IN  IF s + C < Len(T) /\ present # {}
        THEN LET c == CHOOSE c1 \in present : \A c2 \in present : c1 <= c2
             IN  s + NearestOfClass(chunk, c) + 1
        ELSE s + C

\* C24: every chunk is cut where the marker classes say: when and only when
\* the window's right edge start + C is strictly less than |T|, just past
\* the occurrence nearest to the edge of the highest-priority class present
\* in the window ('.', '!' and '?' being one class); at start + C otherwise.
\* (The next window starts chunk_overlap before the cut.)
C24_CutAtBestMarker ==
    [][ (splitPc = "loop" /\ Len(chunks') = Len(chunks) + 1) =>
            start' + chunk_overlap = CutByClass(text, start, chunk_size) ]_vars

\* C27: for every text and 0 < O < C, split_text never uses a negative
\* window start and never emits an empty chunk: every chunk is a non-empty
\* slice T[s:e] with 0 <= s < e <= |T|, its characters taken verbatim.
C27_ChunksAreRealSlices ==
    /\ start >= 0
    /\ \A k \in 1 .. Len(chunks) :
          /\ chunks[k] # <<>>
          /\ 0 <= spans[k][1]
          /\ spans[k][1] < spans[k][2]
          /\ spans[k][2] <= Len(text)
          /\ chunks[k] = SubSeq(text, spans[k][1] + 1, spans[k][2])

-----------------------------------------------------------------------------
(* Claims about RAGModule *)

\* C1: in every reachable state of a running process the number of entries
\* in the document list equals the number of vectors in the vector index.
C1_StoreInLockstep ==
    index # None => Len(documents) = Len(index[1])

\* C2: the initialization body is executed by at most one of the callers
\* that find the module not yet initialized: no two coroutines are inside it
\* at the same time.
C2_InitOnce ==
    Cardinality({t \in Tasks : pc[t] \in InitPcs}) <= 1

\* the two artifacts hold the same number of vectors and document entries
ArtifactsAgree ==
    \/ indexFile = None /\ docsFile = None
    \/ /\ indexFile # None
       /\ docsFile # None
       /\ Len(ReadIndex(indexFile[1])) = Len(docsFile[1])

\* C5: if the process stops at any point during the save step of
\* add_documents, the artifacts found on disk at the next start hold the same
\* number of vectors and document entries.
C5_SaveSurvivesStop ==
    (atBoot /\ crashedInSave) => ArtifactsAgree

\* distance from a query to a stored entry
Dist(query, doc) == L2(Embed(query), Embed(doc.text))

\* C6: search returns at most top_k entries (RAG_TOP_K when top_k is
\* omitted), ordered best-first: the distance from the query to each returned
\* entry is no smaller than the distance to the entry returned before it.
C6_SearchBestFirst ==
    (event.kind = "search" /\ event.outcome = "returned") =>
        /\ Len(event.results) <= EffectiveTopK(event.top_k)
        /\ \A i \in 2 .. Len(event.results) :
              Dist(event.query, event.results[i - 1])
                  <= Dist(event.query, event.results[i])

\* metadata m satisfies the whole filter d: every key of d is in m, with the
\* filter value or with one of the listed values
Satisfies(m, d) ==
    \A e \in d : \E p \in m : p[1] = e.key /\ p[2] \in e.vals

\* C7: every entry returned by a search with a filter satisfies the whole
\* filter; when no stored entry satisfies it, search returns an empty list
\* and raises nothing.  (The filter is read once the search is past
\* initialize.)
C7_FilterSound ==
    (event.kind = "search" /\ event.filter.given) =>
        /\ \A i \in 1 .. Len(event.results) :
              Satisfies(event.results[i].metadata, event.filter.dict)
        /\ (\A i \in 1 .. Len(documents) :
               ~ Satisfies(documents[i].metadata, event.filter.dict))
           => (event.outcome = "returned" /\ event.results = <<>>)

C7_Witness ==
    /\ event.kind = "search"
    /\ event.filter.given
    /\ event.filter.dict # {}
    /\ event.results # <<>>
    /\ \E i \in 1 .. Len(documents) :
          ~ Satisfies(documents[i].metadata, event.filter.dict)

\* no chunk of the add_documents call `id` is in the index, the document
\* list or either artifact
NoTraceOf(id, idx, docs, ifile, dfile) ==
    /\ \A i \in 1 .. Len(docs) : docs[i].call # id
    /\ idx # None => \A i \in 1 .. Len(idx[1]) : idx[1][i].call # id
    /\ dfile # None => \A i \in 1 .. Len(dfile[1]) : dfile[1][i].call # id
    /\ ifile # None =>
          \A i \in 1 .. Len(ifile[1].codes) : ifile[1].codes[i].call # id

\* C8: when the embedding call fails for a batch, the error is raised to the
\* caller and none of the batch is added: the failing call leaves the index,
\* the document list and both artifacts as they were, with no chunk of the
\* batch in any of them.
C8_EmbedFailureAddsNothing ==
    [][ (event'.kind = "add" /\ event'.err = "embed") =>
            /\ event'.outcome = "raised"
            /\ UNCHANGED <<index, documents, indexFile, docsFile>>
            /\ NoTraceOf(event'.id, index', documents', indexFile', docsFile') ]_vars

C8_Witness ==
    /\ event.kind = "add"
    /\ event.err = "embed"
    /\ event.batch # <<>>
    /\ documents # <<>>

\* C9: when the query embedding or the vector search fails inside search,
\* search returns an empty list instead of raising, and leaves the index, the
\* document list and the artifacts unchanged.
C9_SearchFailureReturnsEmpty ==
    [][ (event'.kind = "search" /\ event'.err \in {"embed", "search"}) =>
            /\ event'.outcome = "returned"
            /\ event'.results = <<>>
            /\ UNCHANGED <<index, documents, indexFile, docsFile>> ]_vars

C9_Witness ==
    /\ event.kind = "search"
    /\ event.err \in {"embed", "search"}
    /\ initialized
    /\ documents # <<>>

\* what a fresh process holds after initialize: the pair when both files
\* exist, else a new index and the empty list (lines 76-89)
FreshIndex == IF indexFile # None /\ docsFile # None
              THEN ReadIndex(indexFile[1]) ELSE <<>>
FreshDocs  == IF indexFile # None /\ docsFile # None
              THEN docsFile[1] ELSE <<>>

NoIngestRunning == \A t \in Tasks : args[t].kind # "add"

\* C10: after an add_documents call has returned successfully and no other
\* ingest is running, a fresh process that initializes from the two
\* artifacts holds the same document entries in the same order and the same
\* vectors in the same rows, so every search gives the identical result.
C10_SaveLoadRoundTrip ==
    (/\ event.kind = "add"
     /\ event.outcome = "returned"
     /\ event.batch # <<>>
     /\ NoIngestRunning) =>
        /\ FreshDocs = documents
        /\ FreshIndex = index[1]
        /\ \A q \in Queries, k \in TopKs, f \in Filters :
              SearchBody(FreshIndex, FreshDocs, Embed(q), EffectiveTopK(k), f)
                  = SearchBody(index[1], documents, Embed(q), EffectiveTopK(k), f)

\* the store gives the search that ended no match: it is empty, or no stored
\* entry satisfies the filter of the call
ZeroMatches ==
    \/ documents = <<>>
    \/ /\ Truthy(event.filter)
       /\ \A i \in 1 .. Len(documents) :
             ~ Satisfies(documents[i].metadata, event.filter.dict)

\* C11: augment_prompt returns system_prompt itself when retrieval is
\* disabled (whatever the store holds), and when its inner search (top_k
\* omitted) returns with zero matches: the store is empty or no candidate
\* passes the filter.
C11_AugmentKeepsPrompt ==
    \A sp \in Prompts :
        /\ augment_prompt(FALSE, sp, documents) = sp
        /\ (/\ event.kind = "search"
            /\ event.outcome = "returned"
            /\ event.top_k = 0
            /\ ZeroMatches)
           => augment_prompt(TRUE, sp, event.results) = sp

C11_Witness ==
    /\ event.kind = "search"
    /\ event.outcome = "returned"
    /\ event.top_k = 0
    /\ documents # <<>>
    /\ Truthy(event.filter)
    /\ ZeroMatches
    /\ augment_prompt(TRUE, <<"You are a financial assistant.">>, event.results)
          = <<"You are a financial assistant.">>

\* sequence s is a prefix of sequence t
IsPrefix(s, t) == Len(s) <= Len(t) /\ SubSeq(t, 1, Len(s)) = s

\* C12: within one process, once initialized, every step leaves the document
\* list a prefix of the new document list and the index rows a prefix of the
\* new index rows: nothing removes, replaces or reorders an entry or a row.
C12_AppendOnly ==
    [][ (initialized /\ initialized') =>
            /\ IsPrefix(documents, documents')
            /\ IsPrefix(index[1], index'[1]) ]_vars

\* the step in which coroutine t runs index.add and documents.extend
Appends(t) == pc[t] = "add_encode" /\ pc'[t] = "save_index"

\* the step appends the batch b: both counts grow by Len(b), what was there
\* stays, and the new entries and rows are those of b in batch order
AppendsBatch(b) ==
    /\ Len(documents') = Len(documents) + Len(b)
    /\ Len(index'[1]) = Len(index[1]) + Len(b)
    /\ IsPrefix(documents, documents')
    /\ IsPrefix(index[1], index'[1])
    /\ \A i \in 1 .. Len(b) :
          /\ documents'[Len(documents) + i] = b[i]
          /\ index'[1][Len(index[1]) + i].v = Embed(b[i].text)

\* the two steps in which the call of coroutine t writes the index file
\* from the index and, returning, the document file from the document list
WritesArtifacts(t) ==
    /\ (pc[t] = "save_index" /\ pc'[t] = "save_docs")
          => indexFile' = Some(WriteIndex(index[1]))
    /\ (event'.kind = "add" /\ event'.task = t /\ event'.outcome = "returned"
            /\ event'.batch # <<>>)
          => (indexFile' # None /\ docsFile' = Some(documents'))

\* C15 as stated, for every batch: a successful add_documents call returns
\* the batch size and has rewritten both artifacts.
C15_AddReturnsAndRewrites ==
    [][ (event'.kind = "add" /\ event'.outcome = "returned") =>
            /\ event'.count = Len(event'.batch)
            /\ indexFile' # None
            /\ docsFile' = Some(documents') ]_vars

\* C15, for a batch of n >= 1 chunks: a successful add_documents call returns
\* n; the step of the call that adds to the store increases the index count
\* and the document list length by exactly n and appends the batch's chunks
\* in batch order; the call writes both artifacts before it returns.
C15_AddAppendsBatch ==
    [][ \A t \in Tasks :
          /\ Appends(t) => AppendsBatch(args[t].batch)
          /\ WritesArtifacts(t)
          /\ (event'.kind = "add" /\ event'.task = t
                  /\ event'.outcome = "returned")
                => event'.count = Len(event'.batch) ]_vars

C15_Witness ==
    /\ event.kind = "add"
    /\ event.outcome = "returned"
    /\ event.count = 3
    /\ Len(documents) = 6
    /\ docsFile = Some(documents)

\* the chunks of batch b (text and metadata) stand in docs from position k on
CopyAt(docs, b, k) ==
    /\ k + Len(b) - 1 <= Len(docs)
    /\ \A i \in 1 .. Len(b) :
          /\ docs[k + i - 1].text = b[i].text
          /\ docs[k + i - 1].metadata = b[i].metadata

\* the number of copies of batch b in docs
Copies(docs, b) == Cardinality({k \in 1 .. Len(docs) : CopyAt(docs, b, k)})

\* C16: ingestion does not deduplicate: when the store already holds the
\* chunks of a batch, adding the same batch again increases the index count
\* and the document list length by the batch size once more, and the store
\* then holds one more copy of every chunk.
C16_NoDeduplication ==
    [][ \A t \in Tasks :
          (Appends(t) /\ Copies(documents, args[t].batch) >= 1) =>
              /\ Len(documents') = Len(documents) + Len(args[t].batch)
              /\ Len(index'[1]) = Len(index[1]) + Len(args[t].batch)
              /\ Copies(documents', args[t].batch)
                    = Copies(documents, args[t].batch) + 1 ]_vars

C16_Witness ==
    /\ \E t \in Tasks :
          /\ pc[t] = "save_index"
          /\ Copies(documents, args[t].batch) = 2
    /\ Len(documents) = 6
    /\ Len(index[1]) = 6
    /\ docsFile # None
    /\ Len(docsFile[1]) = 3

\* coroutine t completes the body of initialize in this step (line 91)
CompletesInit(t) ==
    /\ pc[t] \in {"init_model", "init_read_done"}
    /\ pc'[t] \notin InitPcs
    /\ initialized'
    /\ event'.err # "init"

\* C17: whenever initialize completes, the two artifacts were taken as a
\* pair: on the path that found both files, the index is the content of the
\* index file and the document list the content of the document-list file;
\* on the other path a file is absent, neither is used, and the index
\* (count 0) and the document list are both empty.
C17_LoadedAsPair ==
    [][ \A t \in Tasks :
          CompletesInit(t) =>
              IF pc[t] = "init_read_done"
              THEN /\ indexFile # None /\ docsFile # None
                   /\ index' = Some(ReadIndex(indexFile[1]))
                   /\ documents' = docsFile[1]
              ELSE /\ indexFile = None \/ docsFile = None
                   /\ index' = Some(<<>>)
                   /\ documents' = <<>> ]_vars

\* the positions of the rows, and of the document entries, that call c added
RowsOf(c)    == {i \in 1 .. Len(index[1]) : index[1][i].call = c}
EntriesOf(c) == {i \in 1 .. Len(documents) : documents[i].call = c}

\* the latest step was a search that read the index (line 190) and mapped
\* its rows to document entries (lines 194-206); the step changes neither,
\* so the state after it is the state the search saw
SearchReadStore ==
    /\ event.kind = "search"
    /\ event.query # ""
    /\ event.err \in {"none", "index"}

\* C18: at the moment a search reads the index and maps rows to document
\* entries, every add_documents call is in the store as a whole or not at
\* all: the rows it added to the index and the entries it added to the
\* document list stand at the same positions, or it has neither.
C18_SearchSeesWholeAdds ==
    SearchReadStore => \A c \in 1 .. MaxAdds : RowsOf(c) = EntriesOf(c)

\* C19: when add_documents ends because the write of the index file or of
\* the document-list file failed, the memory of the process stays usable:
\* the index and the document list both hold the whole batch of the call
\* and their counts are equal, so that later searches can return its chunks.
C19_SaveFailureKeepsMemory ==
    (event.kind = "add" /\ event.err = "save") =>
        /\ initialized
        /\ Cardinality(RowsOf(event.id)) = Len(event.batch)
        /\ Cardinality(EntriesOf(event.id)) = Len(event.batch)
        /\ Len(index[1]) = Len(documents)

\* C20: a failed initialization is final for the process.  When a call has
\* just ended because initialize failed, the failure was raised to the
\* caller (search did not return an empty list instead), and the next step
\* of the process does not take a call into the initialization body.
C20_InitFailureIsFinal ==
    [][ event.err = "init" =>
          /\ event.outcome = "raised"
          /\ \A t \in Tasks :
                pc'[t] = "init_model" => pc[t] = "init_model" ]_vars

\* the store holds at least n entries: n rows or more in the index, and a
\* document entry for every row
StoreHolds(n) == Len(index[1]) >= n /\ Len(documents) >= Len(index[1])

\* the filter-matching rows among the 2 * top_k rows nearest to the query,
\* nearest first (0-based row numbers)
MatchingCandidates(query, top_k, f) ==
    LET cands == SubSeq(Ranked(index[1], Embed(query)), 1, 2 * top_k)
        Match(idx) == f.given => Satisfies(documents[idx + 1].metadata, f.dict)
    IN  SelectSeq(cands, Match)

\* C21: on a store of at least 2 * top_k entries a search that returns
\* normally returns the entries of the filter-matching rows among the
\* 2 * top_k nearest rows, nearest first, cut to the first top_k: none of
\* them is skipped, no row ranked beyond 2 * top_k is returned, and with
\* fewer than top_k matches the result is shorter.
C21_SearchReturnsMatchingCandidates ==
    (SearchReadStore /\ event.err = "none"
        /\ StoreHolds(2 * EffectiveTopK(event.top_k))) =>
        LET top_k == EffectiveTopK(event.top_k)
            m     == MatchingCandidates(event.query, top_k, event.filter)
        IN  event.results = [i \in 1 .. Min(top_k, Len(m)) |-> documents[m[i] + 1]]

\* a search with top_k = 2 for "ledger" among 6 entries, filtered on a
\* category that only entries ranked beyond the 4 nearest carry: the result
\* is empty although the store holds matching entries
C21_Witness ==
    /\ SearchReadStore
    /\ event.err = "none"
    /\ event.top_k = 2
    /\ event.query = "ledger"
    /\ event.filter.given /\ event.filter.dict # {}
    /\ StoreHolds(4)
    /\ \E i \in 1 .. Len(documents) :
          Satisfies(documents[i].metadata, event.filter.dict)
    /\ event.results = <<>>

\* the positions in context ctx where a block begins, in order
BlockStarts(ctx) ==
    LET Starts(p) == ctx[p] = "[Document "
    IN  SelectSeq([p \in 1 .. Len(ctx) |-> p], Starts)

\* the chunk texts that context ctx carries, in order
TextsIn(ctx, docs) ==
    LET IsText(piece) == \E i \in 1 .. Len(docs) : piece = docs[i].text
    IN  SelectSeq(ctx, IsText)

\* the latest step ended the search that generate_context makes (top_k
\* omitted) and the search returned
ContextSearchEnded ==
    /\ event.kind = "search"
    /\ event.outcome = "returned"
    /\ event.top_k = 0

\* C23: generate_context renders one block per chunk that its search
\* returned, numbered 1..n in the order returned, each block carrying the
\* text of its chunk; the context is the empty string if and only if the
\* search returned no chunk.
C23_OneBlockPerChunk ==
    ContextSearchEnded =>
        LET ctx == generate_context(event.results)
            b   == BlockStarts(ctx)
        IN  /\ Len(b) = Len(event.results)
            /\ \A i \in 1 .. Len(b) :
                  /\ ctx[b[i] + 1] = ToString(i)
                  /\ ctx[b[i] + 2] = "]"
                  /\ \E p \in (b[i] + 3) ..
                              (IF i < Len(b) THEN b[i + 1] - 1 ELSE Len(ctx)) :
                        ctx[p] = event.results[i].text
            /\ TextsIn(ctx, event.results)
                  = [i \in 1 .. Len(event.results) |-> event.results[i].text]
            /\ (ctx = <<>>) <=> (event.results = <<>>)

\* a context of three blocks whose texts differ
C23_Witness ==
    /\ ContextSearchEnded
    /\ Len(event.results) >= 3
    /\ Cardinality({event.results[i].text : i \in 1 .. 3}) = 3
    /\ Len(BlockStarts(generate_context(event.results))) = Len(event.results)

\* C25: the embedding and the vector search of a request both run on a
\* worker: the step in which a coroutine takes up the embeddings was waiting
\* for the encode job, and the step in which a search takes up the rows
\* found in the index was waiting for an index.search job, so that other
\* requests could step while the job ran.
C25_HeavyWorkOffLoop ==
    [][ \A t \in Tasks :
          /\ Appends(t) => AwaitedJob(pc[t]) = "embedding_model.encode"
          /\ (event'.task = t /\ SearchReadStore')
                => AwaitedJob(pc[t]) = "index.search" ]_vars

\* C26: a search returns no stored entry twice in one result list and no
\* more entries than the store holds, also when the index holds fewer than
\* 2 * top_k rows.  (Stored entries differ pairwise: the chunks of a batch
\* differ in text and the batches in the call that brought them.)
C26_NoRepeatedEntry ==
    (event.kind = "search" /\ event.outcome = "returned") =>
        /\ \A i, j \in 1 .. Len(event.results) :
              i # j => event.results[i] # event.results[j]
        /\ Len(event.results) <= Len(documents)

\* C28: when add_documents raises, for whatever cause, the index and the
\* document list in memory hold nothing of the call: no row and no entry
\* that the call brought, so no later search can return a chunk of the batch
\* reported as failed.
C28_FailedAddLeavesNothing ==
    (event.kind = "add" /\ event.outcome = "raised") =>
        /\ EntriesOf(event.id) = {}
        /\ index # None => RowsOf(event.id) = {}

\* the module is initialized, no call is inside initialize, and the only
\* add_documents call made so far has just returned successfully (it had a
\* batch to save), so that no add_documents call has failed and none is
\* running
AddsSettled ==
    /\ initialized
    /\ \A t \in Tasks : pc[t] \notin InitPcs
    /\ NoIngestRunning
    /\ adds = 1
    /\ event.kind = "add"
    /\ event.outcome = "returned"
    /\ event.batch # <<>>

\* C29: after initialization, once the add_documents calls in flight have
\* returned successfully and none is running, the index file holds exactly
\* the rows of the index in memory and the document-list file exactly the
\* document list in memory, in the same order.  Stated for the runs in which
\* one add_documents call has been made, next to any number of other calls.
C29_DiskEqualsMemory ==
    AddsSettled =>
        /\ indexFile # None
        /\ docsFile # None
        /\ ReadIndex(indexFile[1]) = index[1]
        /\ docsFile[1] = documents

\* the batch b of call c stands at the positions p .. p + Len(b) - 1 of the
\* index and of the document list, in batch order, and nowhere else
BatchAt(c, b, p) ==
    /\ RowsOf(c) = p .. (p + Len(b) - 1)
    /\ EntriesOf(c) = p .. (p + Len(b) - 1)
    /\ \A i \in 1 .. Len(b) :
          /\ documents[p + i - 1] = b[i]
          /\ index[1][p + i - 1] = EncodeBatch(b)[i]

\* C30: an add_documents call made on an initialized module, from its append
\* until it returns, has its batch in one contiguous run of positions, in
\* batch order, the same positions in the index as in the document list,
\* whatever the other calls in flight do.
C30_BatchesStayAligned ==
    \A t \in Tasks :
        (args[t].warm /\ pc[t] \in SavePcs) =>
            \E p \in 1 .. Len(documents) :
                BatchAt(args[t].id, args[t].batch, p)

=============================================================================
